---- MODULE Spec2Model ----
(***************************************************************************)
(* The four containers of data_structures.py: FifoQueueOfStacks,          *)
(* StackOfQueues, FifoQueueOfLinkedList and StackOfLinkedList.             *)
(*                                                                         *)
(* A client (the four "Problem" drivers at the end of the file) builds    *)
(* one container and calls its methods; `trace` records every call with   *)
(* its argument and outcome, as the driver's `input` and `output` lists   *)
(* do.  Python lists and queue.Queue objects are sequences; linked-list   *)
(* nodes live in a heap, a function from node ids to node records.        *)
(***************************************************************************)
EXTENDS Integers, Sequences, FiniteSets, TLC

VARIABLES target, fqs, soq, fql, sll, trace, threads, lock, frame

vars == <<target, fqs, soq, fql, sll, trace, threads, lock, frame>>

----------------------------------------------------------------------------
(* Bounds of the model. *)

\* Calls the client makes on one container.
MaxCalls == 6
\* Distinct element values the client inserts: 1..NumValues.
NumValues == 2
\* Calls to enqueue each thread makes in the two-thread scenario.
MaxEnqueues == 2
\* Calls the client makes when the loops run one iteration at a time.
MaxStepCalls == 4
\* Longest list handed to the sorts, and the number of distinct sort keys.
MaxDeck == 4
NumKeys == 3
\* Largest argument of get_mersenne_primes (last_s stays below 2^31).
MaxN == 32
\* Bounding boxes: largest x_min and y_min, largest width and height, and
\* the number of confidence levels.
MaxCoord == 1
MaxSide == 3
NumConf == 2
\* Most sentences of a paragraph handed to paragraph_reversal.
MaxSentences == 2
\* The cards a deck handed to shuffle is made of.
NumCards == 4

Values == 1..NumValues
Threads == {1, 2}

----------------------------------------------------------------------------
(* Python values and outcomes. *)

\* Python's None: the payload of a sentinel node, an absent link, the
\* result of a method without a return statement.
None == 0

Containers ==
    {"FifoQueueOfStacks", "StackOfQueues", "FifoQueueOfLinkedList", "StackOfLinkedList"}

\* A call that returns v.
Return(v) == [kind |-> "return", val |-> v, exc |-> "none"]

\* A call that ends by raising exception type e; it returns nothing.
Raise(e) == [kind |-> "raise", val |-> None, exc |-> e]

\* Names bound at module level: the imports and the four classes.
ModuleGlobals ==
    {"Queue", "Any", "Union"} \cup Containers

\* The built-in names the module's code can reach.
Builtins ==
    {"object", "len", "print", "None", "IndexError", "NameError"}

\* Evaluating the expression  Name(...)  inside a method: the name is looked
\* up in the module's globals and then in the builtins; a name bound in
\* neither makes the evaluation itself raise NameError.
RaiseNamed(name) ==
    IF name \in ModuleGlobals \cup Builtins THEN Raise(name) ELSE Raise("NameError")

Front(s) == SubSeq(s, 1, Len(s) - 1)

\* list.append(el): the top of a list used as a stack is its last element.
ListAppend(s, el) == Append(s, el)

\* list.pop(): removes and returns the last element; IndexError when empty.
ListPop(s) ==
    IF Len(s) = 0
    THEN [out |-> Raise("IndexError"), rest |-> s]
    ELSE [out |-> Return(s[Len(s)]), rest |-> Front(s)]

\* Queue.put(el) on an unbounded Queue(): appends at the back.
QueuePut(q, el) == Append(q, el)

\* Queue.qsize() and Queue.empty().
QueueQsize(q) == Len(q)
QueueEmpty(q) == Len(q) = 0

\* Queue.get(): removes and returns the front; on an empty queue the call
\* blocks until another thread puts an element (outcome kind "block").
QueueGet(q) ==
    IF Len(q) = 0
    THEN [out |-> [kind |-> "block", val |-> None, exc |-> "none"], rest |-> q]
    ELSE [out |-> Return(Head(q)), rest |-> Tail(q)]

\* Queue.get_nowait(): removes and returns the front; queue.Empty when empty.
QueueGetNowait(q) ==
    IF Len(q) = 0
    THEN [out |-> Raise("Empty"), rest |-> q]
    ELSE [out |-> Return(Head(q)), rest |-> Tail(q)]

\* One entry of the trace: the method, its argument and its outcome.
Call(op, arg, out) ==
    [op |-> op, arg |-> arg, kind |-> out.kind, val |-> out.val, exc |-> out.exc]

CanCall(c) == target = c /\ Len(trace) < MaxCalls

----------------------------------------------------------------------------
(* FifoQueueOfStacks *)

FifoQueueOfStacksInit == [input_stack |-> <<>>, output_stack |-> <<>>]

\* DrainInput with `if` written for `while`: only the top element moves.
DrainInputOnce(q) ==
    IF Len(q.input_stack) > 0
    THEN [input_stack |-> ListPop(q.input_stack).rest,
          output_stack |-> ListAppend(q.output_stack, ListPop(q.input_stack).out.val)]
    ELSE q

\* while len(self.input_stack) > 0:
\*     self.output_stack.append(self.input_stack.pop())
RECURSIVE DrainInput(_)
DrainInput(q) ==
    IF Len(q.input_stack) > 0
    THEN DrainInput([input_stack |-> ListPop(q.input_stack).rest,
                     output_stack |-> ListAppend(q.output_stack,
                                                 ListPop(q.input_stack).out.val)])
    ELSE q

\* FifoQueueOfStacksEnqueue written with insert(0, el): the element goes
\* under the stack instead of on top.
FifoQueueOfStacksEnqueueAtBottom(q, el) ==
    [q EXCEPT !.input_stack = <<el>> \o q.input_stack]

FifoQueueOfStacksEnqueue(q, el) ==
    [q EXCEPT !.input_stack = ListAppend(q.input_stack, el)]

\* FifoQueueOfStacksDequeue without the test of output_stack: input_stack
\* is drained on every call.
FifoQueueOfStacksDequeueAlwaysDrains(q) ==
    LET d == DrainInput(q)
        p == ListPop(d.output_stack)
    IN  [obj |-> [d EXCEPT !.output_stack = p.rest], out |-> p.out]

\* FifoQueueOfStacksDequeue answering None on an empty queue.
FifoQueueOfStacksDequeueNoneOnEmpty(q) ==
    IF Len(q.output_stack) > 0
    THEN [obj |-> [q EXCEPT !.output_stack = ListPop(q.output_stack).rest],
          out |-> ListPop(q.output_stack).out]
    ELSE LET d == DrainInput(q)
             p == ListPop(d.output_stack)
         IN  IF p.out.kind = "raise"
             THEN [obj |-> d, out |-> Return(None)]
             ELSE [obj |-> [d EXCEPT !.output_stack = p.rest], out |-> p.out]

\* The queue after dequeue() and the call's outcome.
FifoQueueOfStacksDequeue(q) ==
    IF Len(q.output_stack) > 0
    THEN [obj |-> [q EXCEPT !.output_stack = ListPop(q.output_stack).rest],
          out |-> ListPop(q.output_stack).out]
    ELSE LET d == DrainInput(q)
             p == ListPop(d.output_stack)
         IN  [obj |-> [d EXCEPT !.output_stack = p.rest], out |-> p.out]

FifoQueueOfStacksSize(q) == Len(q.input_stack) + Len(q.output_stack)

FQS_enqueue(el) ==
    /\ CanCall("FifoQueueOfStacks")
    /\ fqs' = FifoQueueOfStacksEnqueue(fqs, el)
    /\ trace' = Append(trace, Call("insert", el, Return(None)))
    /\ UNCHANGED <<target, soq, fql, sll, threads, lock, frame>>

FQS_dequeue ==
    /\ CanCall("FifoQueueOfStacks")
    /\ fqs' = FifoQueueOfStacksDequeue(fqs).obj
    /\ trace' = Append(trace, Call("remove", None, FifoQueueOfStacksDequeue(fqs).out))
    /\ UNCHANGED <<target, soq, fql, sll, threads, lock, frame>>

FQS_size ==
    /\ CanCall("FifoQueueOfStacks")
    /\ trace' = Append(trace, Call("size", None, Return(FifoQueueOfStacksSize(fqs))))
    /\ UNCHANGED <<target, fqs, soq, fql, sll, threads, lock, frame>>

----------------------------------------------------------------------------
(* StackOfQueues *)

StackOfQueuesInit == [input_queue |-> <<>>, output_queue |-> <<>>]

\* RotateOut with `qsize() > 0` written for `qsize() > 1`.
RECURSIVE RotateOutAll(_)
RotateOutAll(s) ==
    IF QueueQsize(s.input_queue) > 0
    THEN RotateOutAll([input_queue |-> QueueGet(s.input_queue).rest,
                       output_queue |-> QueuePut(s.output_queue,
                                                 QueueGet(s.input_queue).out.val)])
    ELSE s

\* while self.input_queue.qsize() > 1:
\*     self.output_queue.put(self.input_queue.get())
RECURSIVE RotateOut(_)
RotateOut(s) ==
    IF QueueQsize(s.input_queue) > 1
    THEN RotateOut([input_queue |-> QueueGet(s.input_queue).rest,
                    output_queue |-> QueuePut(s.output_queue,
                                              QueueGet(s.input_queue).out.val)])
    ELSE s

\* while not self.output_queue.empty():
\*     self.input_queue.put(self.output_queue.get())
RECURSIVE RotateBack(_)
RotateBack(s) ==
    IF ~QueueEmpty(s.output_queue)
    THEN RotateBack([input_queue |-> QueuePut(s.input_queue,
                                              QueueGet(s.output_queue).out.val),
                     output_queue |-> QueueGet(s.output_queue).rest])
    ELSE s

StackOfQueuesPush(s, el) ==
    [s EXCEPT !.input_queue = QueuePut(s.input_queue, el)]

StackOfQueuesPop(s) ==
    LET r == RotateBack(RotateOut(s))
        g == QueueGetNowait(r.input_queue)
    IN  [obj |-> [r EXCEPT !.input_queue = g.rest], out |-> g.out]

StackOfQueuesSize(s) == QueueQsize(s.input_queue) + QueueQsize(s.output_queue)

SOQ_push(el) ==
    /\ CanCall("StackOfQueues")
    /\ soq' = StackOfQueuesPush(soq, el)
    /\ trace' = Append(trace, Call("insert", el, Return(None)))
    /\ UNCHANGED <<target, fqs, fql, sll, threads, lock, frame>>

SOQ_pop ==
    /\ CanCall("StackOfQueues")
    /\ soq' = StackOfQueuesPop(soq).obj
    /\ trace' = Append(trace, Call("remove", None, StackOfQueuesPop(soq).out))
    /\ UNCHANGED <<target, fqs, fql, sll, threads, lock, frame>>

SOQ_size ==
    /\ CanCall("StackOfQueues")
    /\ trace' = Append(trace, Call("size", None, Return(StackOfQueuesSize(soq))))
    /\ UNCHANGED <<target, fqs, soq, fql, sll, threads, lock, frame>>

----------------------------------------------------------------------------
(* Linked-list heaps *)

\* The id of a newly allocated node: the smallest id no live node has.
NewId(nodes) ==
    CHOOSE n \in 1..(Cardinality(DOMAIN nodes) + 1) :
        /\ n \notin DOMAIN nodes
        /\ \A m \in 1..(n - 1) : m \in DOMAIN nodes

\* The nodes reachable from `roots` by following the links named in
\* `links` at most `fuel` times.
RECURSIVE ReachableFrom(_, _, _, _)
ReachableFrom(nodes, links, roots, fuel) ==
    LET step == roots \cup
                ({nodes[n][l] : n \in roots, l \in links} \ {None})
    IN  IF fuel = 0 \/ step = roots
        THEN roots
        ELSE ReachableFrom(nodes, links, step, fuel - 1)

\* Reference counting frees a node as soon as nothing refers to it.
Collect(nodes, links, roots) ==
    LET live == ReachableFrom(nodes, links, roots, Cardinality(DOMAIN nodes))
    IN  [n \in live |-> nodes[n]]

----------------------------------------------------------------------------
(* FifoQueueOfLinkedList *)

\* Node(value, previous, next) of the doubly-linked list.
DNode(value, previous, next) ==
    [value |-> value, previous |-> previous, next |-> next]

\* self.tail = Node(None, None, None); self.head = Node(None, None, self.tail);
\* self.tail.previous = self.head
FifoQueueOfLinkedListInit ==
    [tail |-> 1, head |-> 2,
     nodes |-> (1 :> DNode(None, 2, None)) @@ (2 :> DNode(None, None, 1))]

\* EnqueueCreate written as self.Node(el, None, self.head.next).
EnqueueCreateNoPrevious(q, id, el) ==
    [q EXCEPT !.nodes = (id :> DNode(el, None, q.nodes[q.head].next)) @@ q.nodes]

\* node = self.Node(el, self.head, self.head.next), allocated at id.
EnqueueCreate(q, id, el) ==
    [q EXCEPT !.nodes = (id :> DNode(el, q.head, q.nodes[q.head].next)) @@ q.nodes]

\* EnqueueLinkBack with the assignment left out.
EnqueueNoLinkBack(q, id) == q

\* node.next.previous = node
EnqueueLinkBack(q, id) ==
    [q EXCEPT !.nodes[q.nodes[id].next].previous = id]

\* EnqueueLinkHead with the assignment left out.
EnqueueNoLinkHead(q, id) == q

\* self.head.next = node
EnqueueLinkHead(q, id) ==
    [q EXCEPT !.nodes[q.head].next = id]

FifoQueueOfLinkedListEnqueue(q, el) ==
    LET id == NewId(q.nodes)
    IN  EnqueueLinkHead(EnqueueLinkBack(EnqueueCreate(q, id, el), id), id)

\* FifoQueueOfLinkedListDequeue without  self.tail.previous.next = self.tail.
FifoQueueOfLinkedListDequeueNoRelink(q) ==
    IF q.nodes[q.tail].previous = q.head
    THEN [obj |-> q, out |-> RaiseNamed("Empty")]
    ELSE LET old == q.nodes[q.tail].previous
             el == q.nodes[old].value
             q1 == [q EXCEPT !.nodes[q.tail].previous = q.nodes[old].previous]
         IN  [obj |-> [q1 EXCEPT !.nodes =
                          Collect(q1.nodes, {"previous", "next"}, {q1.head, q1.tail})],
              out |-> Return(el)]

\* The queue after dequeue() and the call's outcome.
FifoQueueOfLinkedListDequeue(q) ==
    IF q.nodes[q.tail].previous = q.head
    THEN [obj |-> q, out |-> RaiseNamed("Empty")]
    ELSE LET old == q.nodes[q.tail].previous
             el == q.nodes[old].value
             q1 == [q EXCEPT !.nodes[q.tail].previous = q.nodes[old].previous]
             q2 == [q1 EXCEPT !.nodes[q1.nodes[q1.tail].previous].next = q1.tail]
         IN  [obj |-> [q2 EXCEPT !.nodes =
                          Collect(q2.nodes, {"previous", "next"}, {q2.head, q2.tail})],
              out |-> Return(el)]

\* while current_node.next is not None: size += 1; current_node = ...
RECURSIVE CountToEnd(_, _, _)
CountToEnd(nodes, current_node, fuel) ==
    IF nodes[current_node].next = None \/ fuel = 0
    THEN 0
    ELSE 1 + CountToEnd(nodes, nodes[current_node].next, fuel - 1)

\* FifoQueueOfLinkedListSize starting at self.head, as StackOfLinkedList.size does.
FifoQueueOfLinkedListSizeFromHead(q) ==
    CountToEnd(q.nodes, q.head, Cardinality(DOMAIN q.nodes))

FifoQueueOfLinkedListSize(q) ==
    CountToEnd(q.nodes, q.nodes[q.head].next, Cardinality(DOMAIN q.nodes))

FQL_enqueue(el) ==
    /\ CanCall("FifoQueueOfLinkedList")
    /\ fql' = FifoQueueOfLinkedListEnqueue(fql, el)
    /\ trace' = Append(trace, Call("insert", el, Return(None)))
    /\ UNCHANGED <<target, fqs, soq, sll, threads, lock, frame>>

FQL_dequeue ==
    /\ CanCall("FifoQueueOfLinkedList")
    /\ fql' = FifoQueueOfLinkedListDequeue(fql).obj
    /\ trace' = Append(trace, Call("remove", None, FifoQueueOfLinkedListDequeue(fql).out))
    /\ UNCHANGED <<target, fqs, soq, sll, threads, lock, frame>>

FQL_size ==
    /\ CanCall("FifoQueueOfLinkedList")
    /\ trace' = Append(trace, Call("size", None, Return(FifoQueueOfLinkedListSize(fql))))
    /\ UNCHANGED <<target, fqs, soq, fql, sll, threads, lock, frame>>

----------------------------------------------------------------------------
(* StackOfLinkedList *)

\* Node(value, next) of the singly-linked list.
SNode(value, next) == [value |-> value, next |-> next]

\* self.head = self.Node(None, None)
StackOfLinkedListInit == [head |-> 1, nodes |-> (1 :> SNode(None, None))]

\* StackOfLinkedListPush with Node(el, None) written for Node(el, self.head.next).
StackOfLinkedListPushDropsRest(s, el) ==
    LET id == NewId(s.nodes)
        s1 == [s EXCEPT !.nodes = (id :> SNode(el, None)) @@ s.nodes]
    IN  [s1 EXCEPT !.nodes[s1.head].next = id]

\* self.head.next = self.Node(el, self.head.next)
StackOfLinkedListPush(s, el) ==
    LET id == NewId(s.nodes)
        s1 == [s EXCEPT !.nodes = (id :> SNode(el, s.nodes[s.head].next)) @@ s.nodes]
    IN  [s1 EXCEPT !.nodes[s1.head].next = id]

StackOfLinkedListPop(s) ==
    IF s.nodes[s.head].next = None
    THEN [obj |-> s, out |-> RaiseNamed("Empty")]
    ELSE LET old == s.nodes[s.head].next
             el == s.nodes[old].value
             s1 == [s EXCEPT !.nodes[s.head].next = s.nodes[old].next]
         IN  [obj |-> [s1 EXCEPT !.nodes = Collect(s1.nodes, {"next"}, {s1.head})],
              out |-> Return(el)]

StackOfLinkedListSize(s) ==
    CountToEnd(s.nodes, s.head, Cardinality(DOMAIN s.nodes))

SLL_push(el) ==
    /\ CanCall("StackOfLinkedList")
    /\ sll' = StackOfLinkedListPush(sll, el)
    /\ trace' = Append(trace, Call("insert", el, Return(None)))
    /\ UNCHANGED <<target, fqs, soq, fql, threads, lock, frame>>

SLL_pop ==
    /\ CanCall("StackOfLinkedList")
    /\ sll' = StackOfLinkedListPop(sll).obj
    /\ trace' = Append(trace, Call("remove", None, StackOfLinkedListPop(sll).out))
    /\ UNCHANGED <<target, fqs, soq, fql, threads, lock, frame>>

SLL_size ==
    /\ CanCall("StackOfLinkedList")
    /\ trace' = Append(trace, Call("size", None, Return(StackOfLinkedListSize(sll))))
    /\ UNCHANGED <<target, fqs, soq, fql, sll, threads, lock, frame>>

----------------------------------------------------------------------------
(* The single-threaded client *)

\* A thread that is not inside a call.
IdleThread == [pc |-> "idle", el |-> None, node |-> None, left |-> 0]

NoLock == [use |-> FALSE, holder |-> None]

\* No function of the other modules is being run.
NoFrame == [fn |-> "none", pc |-> "idle"]

\* The client has constructed the container it is going to use.
Init ==
    /\ target \in Containers
    /\ fqs = FifoQueueOfStacksInit
    /\ soq = StackOfQueuesInit
    /\ fql = FifoQueueOfLinkedListInit
    /\ sll = StackOfLinkedListInit
    /\ trace = <<>>
    /\ threads = [t \in Threads |-> IdleThread]
    /\ lock = NoLock
    /\ frame = NoFrame

Next ==
    \/ \E el \in Values : FQS_enqueue(el)
    \/ FQS_dequeue
    \/ FQS_size
    \/ \E el \in Values : SOQ_push(el)
    \/ SOQ_pop
    \/ SOQ_size
    \/ \E el \in Values : FQL_enqueue(el)
    \/ FQL_dequeue
    \/ FQL_size
    \/ \E el \in Values : SLL_push(el)
    \/ SLL_pop
    \/ SLL_size

Spec == Init /\ [][Next]_vars

----------------------------------------------------------------------------
(* What the trace says, independently of the containers' state. *)

Reverse(s) == [i \in 1..Len(s) |-> s[Len(s) + 1 - i]]

IsPrefix(s, t) == Len(s) <= Len(t) /\ SubSeq(t, 1, Len(s)) = s

\* The elements a queue (lifo = FALSE) or a stack (lifo = TRUE) holds after
\* the calls of tr, oldest first: an insert adds its argument, a removal
\* that returned took the oldest (queue) or the newest (stack) element.
RECURSIVE Pending(_, _)
Pending(tr, lifo) ==
    IF tr = <<>> THEN <<>>
    ELSE LET before == Pending(Front(tr), lifo)
             c == tr[Len(tr)]
         IN  IF c.op = "insert" THEN Append(before, c.arg)
             ELSE IF c.op = "remove" /\ c.kind = "return" /\ before # <<>>
                  THEN IF lifo THEN Front(before) ELSE Tail(before)
                  ELSE before

\* The arguments of the inserts and the values of the removals that returned.
RECURSIVE Inserted(_)
Inserted(tr) ==
    IF tr = <<>> THEN <<>>
    ELSE IF tr[Len(tr)].op = "insert"
         THEN Append(Inserted(Front(tr)), tr[Len(tr)].arg)
         ELSE Inserted(Front(tr))

RECURSIVE Removed(_)
Removed(tr) ==
    IF tr = <<>> THEN <<>>
    ELSE IF tr[Len(tr)].op = "remove" /\ tr[Len(tr)].kind = "return"
         THEN Append(Removed(Front(tr)), tr[Len(tr)].val)
         ELSE Removed(Front(tr))

\* Inserts so far minus successful removals so far.
Held(tr) == Len(Inserted(tr)) - Len(Removed(tr))

LastCall == trace[Len(trace)]

\* The last call was a removal made while the container held an element.
RemovedFromNonEmpty(lifo) ==
    /\ trace # <<>>
    /\ LastCall.op = "remove"
    /\ Pending(Front(trace), lifo) # <<>>

\* The last call was a removal made while the container held no element.
RemovedFromEmpty ==
    /\ trace # <<>>
    /\ LastCall.op = "remove"
    /\ Held(Front(trace)) = 0

\* The node ids met from `from` along `link` until the link is None.
RECURSIVE Walk(_, _, _, _)
Walk(nodes, link, from, fuel) ==
    IF from = None \/ fuel = 0 THEN <<>>
    ELSE <<from>> \o Walk(nodes, link, nodes[from][link], fuel - 1)

Forward(q) == Walk(q.nodes, "next", q.head, Cardinality(DOMAIN q.nodes) + 1)
Backward(q) == Walk(q.nodes, "previous", q.tail, Cardinality(DOMAIN q.nodes) + 1)

ValuesOf(nodes, ids) == [i \in 1..Len(ids) |-> nodes[ids[i]].value]

\* The elements each container holds, oldest first.
FifoQueueOfStacksContents(q) == Reverse(q.output_stack) \o q.input_stack
StackOfQueuesContents(s) == s.output_queue \o s.input_queue
FifoQueueOfLinkedListContents(q) ==
    LET b == Backward(q) IN ValuesOf(q.nodes, SubSeq(b, 2, Len(b) - 1))
StackOfLinkedListContents(s) ==
    LET f == Walk(s.nodes, "next", s.head, Cardinality(DOMAIN s.nodes) + 1)
    IN  Reverse(ValuesOf(s.nodes, SubSeq(f, 2, Len(f))))

----------------------------------------------------------------------------
(* C1 - C4: FIFO and LIFO order *)

\* C1: on a FifoQueueOfStacks every dequeue made while the queue holds an
\* element returns the oldest enqueued value not yet dequeued and removes
\* it; the values returned so far are a prefix of the values enqueued so
\* far, in enqueue order.
C1_FifoQueueOfStacksIsFifo ==
    target = "FifoQueueOfStacks" =>
        /\ IsPrefix(Removed(trace), Inserted(trace))
        /\ RemovedFromNonEmpty(FALSE) =>
              /\ LastCall.kind = "return"
              /\ LastCall.val = Head(Pending(Front(trace), FALSE))
              /\ FifoQueueOfStacksContents(fqs) = Tail(Pending(Front(trace), FALSE))

\* enqueue a, enqueue b, dequeue -> a, enqueue c, dequeue -> b, dequeue -> c
C1_Witness ==
    /\ target = "FifoQueueOfStacks"
    /\ Len(trace) = 6
    /\ [i \in 1..6 |-> trace[i].op]
         = <<"insert", "insert", "remove", "insert", "remove", "remove">>
    /\ Inserted(trace) = <<1, 2, 1>>
    /\ Removed(trace) = <<1, 2, 1>>

\* C2: on a FifoQueueOfLinkedList every dequeue made while the queue holds
\* an element returns the value of the node immediately before the tail
\* sentinel, and that value is the oldest enqueued value not yet dequeued.
C2_FifoQueueOfLinkedListIsFifo ==
    [][(/\ target = "FifoQueueOfLinkedList"
        /\ trace' # trace
        /\ trace'[Len(trace')].op = "remove"
        /\ Pending(trace, FALSE) # <<>>)
       => /\ trace'[Len(trace')].kind = "return"
          /\ trace'[Len(trace')].val = fql.nodes[fql.nodes[fql.tail].previous].value
          /\ trace'[Len(trace')].val = Head(Pending(trace, FALSE))
          /\ fql.nodes[fql.tail].previous \notin DOMAIN fql'.nodes]_vars

C2_Witness ==
    /\ target = "FifoQueueOfLinkedList"
    /\ Len(trace) = 6
    /\ [i \in 1..6 |-> trace[i].op]
         = <<"insert", "insert", "remove", "insert", "remove", "remove">>
    /\ Inserted(trace) = <<2, 1, 1>>
    /\ Removed(trace) = <<2, 1, 1>>

\* C3: on a StackOfQueues every pop made while the stack holds an element
\* returns the most recently pushed value not yet popped and removes it.
C3_StackOfQueuesIsLifo ==
    (target = "StackOfQueues" /\ RemovedFromNonEmpty(TRUE)) =>
        /\ LastCall.kind = "return"
        /\ LastCall.val = Pending(Front(trace), TRUE)[Len(Pending(Front(trace), TRUE))]
        /\ StackOfQueuesContents(soq) = Front(Pending(Front(trace), TRUE))

\* push a, push b, pop -> b, push c, pop -> c, pop -> a
C3_Witness ==
    /\ target = "StackOfQueues"
    /\ Len(trace) = 6
    /\ [i \in 1..6 |-> trace[i].op]
         = <<"insert", "insert", "remove", "insert", "remove", "remove">>
    /\ Inserted(trace) = <<1, 2, 2>>
    /\ Removed(trace) = <<2, 2, 1>>

\* C4: on a StackOfLinkedList every pop made while the stack holds an
\* element returns the value of the node immediately after the head
\* sentinel and unlinks that node, and the value is the most recently
\* pushed value not yet popped.
C4_StackOfLinkedListIsLifo ==
    [][(/\ target = "StackOfLinkedList"
        /\ trace' # trace
        /\ trace'[Len(trace')].op = "remove"
        /\ Pending(trace, TRUE) # <<>>)
       => /\ trace'[Len(trace')].kind = "return"
          /\ trace'[Len(trace')].val = sll.nodes[sll.nodes[sll.head].next].value
          /\ trace'[Len(trace')].val = Pending(trace, TRUE)[Len(Pending(trace, TRUE))]
          /\ sll'.nodes[sll'.head].next = sll.nodes[sll.nodes[sll.head].next].next
          /\ sll.nodes[sll.head].next \notin DOMAIN sll'.nodes]_vars

C4_Witness ==
    /\ target = "StackOfLinkedList"
    /\ Len(trace) = 6
    /\ [i \in 1..6 |-> trace[i].op]
         = <<"insert", "insert", "remove", "insert", "remove", "remove">>
    /\ Inserted(trace) = <<1, 2, 1>>
    /\ Removed(trace) = <<2, 1, 1>>

----------------------------------------------------------------------------
(* C5: size *)

\* What size() returns in the current state of the container in use.
ContainerSize ==
    CASE target = "FifoQueueOfStacks" -> FifoQueueOfStacksSize(fqs)
      [] target = "StackOfQueues" -> StackOfQueuesSize(soq)
      [] target = "FifoQueueOfLinkedList" -> FifoQueueOfLinkedListSize(fql)
      [] target = "StackOfLinkedList" -> StackOfLinkedListSize(sll)

\* C5: after any sequence of insert, removal and size calls on any of the
\* four containers, size() returns the number of inserts so far minus the
\* number of successful removals so far, which is never negative; for the
\* linked-list containers it is the number of non-sentinel nodes met by
\* walking the list.
C5_SizeIsInsertsMinusRemovals ==
    /\ Held(trace) >= 0
    /\ ContainerSize = Held(trace)
    /\ (trace # <<>> /\ LastCall.op = "size") =>
          (LastCall.kind = "return" /\ LastCall.val = Held(trace))
    /\ target = "FifoQueueOfLinkedList" => Held(trace) = Len(Forward(fql)) - 2
    /\ target = "StackOfLinkedList" =>
          Held(trace) = Len(Walk(sll.nodes, "next", sll.head,
                                 Cardinality(DOMAIN sll.nodes) + 1)) - 1

\* size() asked of a linked-list queue that holds two elements, after a
\* failed removal, three inserts and a successful removal.
C5_Witness ==
    /\ target = "FifoQueueOfLinkedList"
    /\ Len(trace) = 6
    /\ [i \in 1..6 |-> trace[i].op]
         = <<"remove", "insert", "insert", "insert", "remove", "size">>
    /\ LastCall.val = 2

----------------------------------------------------------------------------
(* C6 - C9: removal from an empty container *)

\* The exception a removal raises on a freshly constructed container.
EmptyError(c) ==
    CASE c = "FifoQueueOfStacks" -> FifoQueueOfStacksDequeue(FifoQueueOfStacksInit).out.exc
      [] c = "StackOfQueues" -> StackOfQueuesPop(StackOfQueuesInit).out.exc
      [] c = "FifoQueueOfLinkedList" ->
             FifoQueueOfLinkedListDequeue(FifoQueueOfLinkedListInit).out.exc
      [] c = "StackOfLinkedList" -> StackOfLinkedListPop(StackOfLinkedListInit).out.exc

\* C6: a removal from a container that holds no element raises the same
\* exception type whichever of the four containers it is called on.
C6_SameErrorKind ==
    RemovedFromEmpty =>
        /\ LastCall.kind = "raise"
        /\ \A c \in Containers : EmptyError(c) = LastCall.exc

\* C7: dequeue on an empty FifoQueueOfLinkedList and pop on an empty
\* StackOfLinkedList raise Empty, the exception StackOfQueues.pop raises on
\* an empty stack, and no other exception.
C7_LinkedListsRaiseEmpty ==
    (target \in {"FifoQueueOfLinkedList", "StackOfLinkedList"} /\ RemovedFromEmpty) =>
        /\ LastCall.kind = "raise"
        /\ LastCall.exc = "Empty"
        /\ LastCall.exc = EmptyError("StackOfQueues")

\* C8: on each of the four containers a removal called while the container
\* holds no element returns no value but raises, and leaves the container
\* exactly as it was, with size() still 0.
C8_RemovalFromEmptyRaisesAndKeepsState ==
    [][(/\ trace' # trace
        /\ trace'[Len(trace')].op = "remove"
        /\ Held(trace) = 0)
       => /\ trace'[Len(trace')].kind = "raise"
          /\ trace'[Len(trace')].exc # "none"
          /\ <<fqs, soq, fql, sll>>' = <<fqs, soq, fql, sll>>
          /\ ContainerSize' = 0]_vars

\* A drained StackOfQueues is popped, raises, and then works as before.
C8_Witness ==
    /\ target = "StackOfQueues"
    /\ Len(trace) = 6
    /\ [i \in 1..6 |-> trace[i].kind]
         = <<"return", "return", "raise", "return", "return", "return">>
    /\ [i \in 1..6 |-> trace[i].op]
         = <<"insert", "remove", "remove", "insert", "insert", "remove">>
    /\ Removed(trace) = <<1, 2>>
    /\ Inserted(trace) = <<1, 1, 2>>

\* The state of the container in use is that of a new container.
IsFresh ==
    CASE target = "FifoQueueOfStacks" ->
             fqs.input_stack = <<>> /\ fqs.output_stack = <<>>
      [] target = "StackOfQueues" ->
             soq.input_queue = <<>> /\ soq.output_queue = <<>>
      [] target = "FifoQueueOfLinkedList" ->
             /\ fql.nodes[fql.head].next = fql.tail
             /\ fql.nodes[fql.tail].previous = fql.head
             /\ fql = FifoQueueOfLinkedListInit
      [] target = "StackOfLinkedList" ->
             /\ sll.nodes[sll.head].next = None
             /\ sll = StackOfLinkedListInit

\* C9: whenever a container has been drained, so that it holds no element,
\* size() is 0 and its state is that of a freshly constructed container.
C9_DrainedIsFresh ==
    Held(trace) = 0 => (ContainerSize = 0 /\ IsFresh)

\* A linked-list queue drained twice, FIFO order kept after the first drain.
C9_Witness ==
    /\ target = "FifoQueueOfLinkedList"
    /\ Len(trace) = 6
    /\ [i \in 1..6 |-> trace[i].op]
         = <<"insert", "remove", "insert", "insert", "remove", "remove">>
    /\ Inserted(trace) = <<1, 2, 1>>
    /\ Removed(trace) = <<1, 2, 1>>
    /\ Held(trace) = 0

----------------------------------------------------------------------------
(* Two threads calling enqueue on one FifoQueueOfLinkedList *)

\* A thread about to make MaxEnqueues calls.
StartingThread == [pc |-> "idle", el |-> None, node |-> None, left |-> MaxEnqueues]

\* The caller's lock around each operation, when the caller uses one.
LockFree(l) == l.use => l.holder = None
Acquire(l, t) == IF l.use THEN [l EXCEPT !.holder = t] ELSE l
Release(l, t) == IF l.use THEN [l EXCEPT !.holder = None] ELSE l

InitThreads ==
    /\ target = "FifoQueueOfLinkedList"
    /\ fqs = FifoQueueOfStacksInit
    /\ soq = StackOfQueuesInit
    /\ fql = FifoQueueOfLinkedListInit
    /\ sll = StackOfLinkedListInit
    /\ trace = <<>>
    /\ threads = [t \in Threads |-> StartingThread]
    /\ lock \in {[use |-> u, holder |-> None] : u \in BOOLEAN}
    /\ frame = NoFrame

\* Thread t calls enqueue(el), taking the caller's lock first if there is one.
T_call(t, el) ==
    /\ threads[t].pc = "idle"
    /\ threads[t].left > 0
    /\ LockFree(lock)
    /\ lock' = Acquire(lock, t)
    /\ threads' = [threads EXCEPT ![t].pc = "create", ![t].el = el]
    /\ UNCHANGED <<target, fqs, soq, fql, sll, trace, frame>>

\* node = self.Node(el, self.head, self.head.next)
T_create(t) ==
    /\ threads[t].pc = "create"
    /\ fql' = EnqueueCreate(fql, NewId(fql.nodes), threads[t].el)
    /\ threads' = [threads EXCEPT ![t].pc = "link_back", ![t].node = NewId(fql.nodes)]
    /\ UNCHANGED <<target, fqs, soq, sll, trace, lock, frame>>

\* node.next.previous = node
T_link_back(t) ==
    /\ threads[t].pc = "link_back"
    /\ fql' = EnqueueLinkBack(fql, threads[t].node)
    /\ threads' = [threads EXCEPT ![t].pc = "link_head"]
    /\ UNCHANGED <<target, fqs, soq, sll, trace, lock, frame>>

\* self.head.next = node, and enqueue returns.
T_link_head(t) ==
    /\ threads[t].pc = "link_head"
    /\ fql' = EnqueueLinkHead(fql, threads[t].node)
    /\ threads' = [threads EXCEPT ![t] = [pc |-> "idle", el |-> None, node |-> None,
                                          left |-> threads[t].left - 1]]
    /\ trace' = Append(trace, Call("insert", threads[t].el, Return(None)))
    /\ lock' = Release(lock, t)
    /\ UNCHANGED <<target, fqs, soq, sll, frame>>

NextThreads ==
    \/ \E t \in Threads, el \in Values : T_call(t, el)
    \/ \E t \in Threads : T_create(t)
    \/ \E t \in Threads : T_link_back(t)
    \/ \E t \in Threads : T_link_head(t)

SpecThreads == InitThreads /\ [][NextThreads]_vars

\* No thread is inside a call.
Quiescent == \A t \in Threads : threads[t].pc = "idle"

\* Every element enqueued so far is met walking forward from head, and the
\* walk backward from tail meets the same nodes in the opposite order.
NothingLostAndConsistent ==
    /\ Forward(fql) = Reverse(Backward(fql))
    /\ FifoQueueOfLinkedListContents(fql) = Inserted(trace)
    /\ FifoQueueOfLinkedListSize(fql) = Len(trace)

\* C10: when every enqueue runs under the caller's lock, no state is
\* reachable in which an enqueued element is lost or the forward and
\* backward traversals differ; C10_Witness is the state the unlocked,
\* interleaved enqueues reach in which both have happened.
C10_LockedEnqueuesAreSafe ==
    (lock.use /\ lock.holder = None) => NothingLostAndConsistent

\* Without a lock: both threads have returned from enqueue, two elements
\* were enqueued, size() counts one, and the node met walking forward is
\* not the node met walking backward.
C10_Witness ==
    /\ ~lock.use
    /\ Quiescent
    /\ Len(trace) = 2
    /\ FifoQueueOfLinkedListSize(fql) = 1
    /\ Len(Backward(fql)) = 3
    /\ Forward(fql)[2] # Backward(fql)[2]

\* Under the lock two threads have each completed their enqueues.
C10_LockedRun ==
    /\ lock.use
    /\ Quiescent
    /\ \A t \in Threads : threads[t].left = 0
    /\ NothingLostAndConsistent

----------------------------------------------------------------------------
(* The loops of the containers, one iteration at a time *)

\* No call is in progress; the last call made `k` loop iterations.
IdleAfter(k) == [fn |-> "none", pc |-> "idle", iters |-> k]

CanStart(c) == target = c /\ Len(trace) < MaxStepCalls /\ frame.pc = "idle"

Running(fn, pc) == frame.fn = fn /\ frame.pc = pc

\* while len(self.input_stack) > 0
DrainTest(q) == Len(q.input_stack) > 0

\* self.output_stack.append(self.input_stack.pop())
DrainBody(q) ==
    [input_stack |-> ListPop(q.input_stack).rest,
     output_stack |-> ListAppend(q.output_stack, ListPop(q.input_stack).out.val)]

\* RotateOutTest written as `while self.input_queue.qsize() > 0`: the
\* last-pushed element is rotated out with the others.
RotateOutTestToEmpty(s) == QueueQsize(s.input_queue) > 0

\* while self.input_queue.qsize() > 1
RotateOutTest(s) == QueueQsize(s.input_queue) > 1

\* self.output_queue.put(self.input_queue.get())
RotateOutBody(s) ==
    [input_queue |-> QueueGet(s.input_queue).rest,
     output_queue |-> QueuePut(s.output_queue, QueueGet(s.input_queue).out.val)]

\* RotateBackTest written as `while self.output_queue.qsize() > 1`: the
\* last element stays in output_queue.
RotateBackTestLeavesOne(s) == QueueQsize(s.output_queue) > 1

\* RotateBackTest written as `while self.output_queue.qsize() >= 0`.
RotateBackTestAlways(s) == QueueQsize(s.output_queue) >= 0

\* while not self.output_queue.empty()
RotateBackTest(s) == ~QueueEmpty(s.output_queue)

\* self.input_queue.put(self.output_queue.get())
RotateBackBody(s) ==
    [input_queue |-> QueuePut(s.input_queue, QueueGet(s.output_queue).out.val),
     output_queue |-> QueueGet(s.output_queue).rest]

InitSteps ==
    /\ target \in Containers
    /\ fqs = FifoQueueOfStacksInit
    /\ soq = StackOfQueuesInit
    /\ fql = FifoQueueOfLinkedListInit
    /\ sll = StackOfLinkedListInit
    /\ trace = <<>>
    /\ threads = [t \in Threads |-> IdleThread]
    /\ lock = NoLock
    /\ frame = IdleAfter(0)

\* FifoQueueOfStacks.dequeue: the test of output_stack.
S_dequeue_begin ==
    /\ CanStart("FifoQueueOfStacks")
    /\ frame' = [fn |-> "dequeue", iters |-> 0,
                 pc |-> IF Len(fqs.output_stack) > 0 THEN "return" ELSE "drain"]
    /\ UNCHANGED <<target, fqs, soq, fql, sll, trace, threads, lock>>

\* One test of the drain loop and, when it holds, one run of its body.
S_dequeue_drain ==
    /\ Running("dequeue", "drain")
    /\ IF DrainTest(fqs)
       THEN fqs' = DrainBody(fqs) /\ frame' = [frame EXCEPT !.iters = @ + 1]
       ELSE fqs' = fqs /\ frame' = [frame EXCEPT !.pc = "return"]
    /\ UNCHANGED <<target, soq, fql, sll, trace, threads, lock>>

\* return self.output_stack.pop()
S_dequeue_return ==
    /\ Running("dequeue", "return")
    /\ fqs' = [fqs EXCEPT !.output_stack = ListPop(fqs.output_stack).rest]
    /\ trace' = Append(trace, Call("remove", None, ListPop(fqs.output_stack).out))
    /\ frame' = IdleAfter(frame.iters)
    /\ UNCHANGED <<target, soq, fql, sll, threads, lock>>

S_pop_begin ==
    /\ CanStart("StackOfQueues")
    /\ frame' = [fn |-> "pop", iters |-> 0, pc |-> "rotate_out"]
    /\ UNCHANGED <<target, fqs, soq, fql, sll, trace, threads, lock>>

\* One test of the first loop of pop and, when it holds, one run of its
\* body; a get() that finds its queue empty never returns.
S_pop_rotate_out ==
    /\ Running("pop", "rotate_out")
    /\ IF RotateOutTest(soq)
       THEN IF QueueGet(soq.input_queue).out.kind = "block"
            THEN soq' = soq /\ frame' = [frame EXCEPT !.pc = "blocked"]
            ELSE soq' = RotateOutBody(soq) /\ frame' = [frame EXCEPT !.iters = @ + 1]
       ELSE soq' = soq /\ frame' = [frame EXCEPT !.pc = "rotate_back"]
    /\ UNCHANGED <<target, fqs, fql, sll, trace, threads, lock>>

\* One test of the second loop of pop and, when it holds, one run of its body.
S_pop_rotate_back ==
    /\ Running("pop", "rotate_back")
    /\ IF RotateBackTest(soq)
       THEN IF QueueGet(soq.output_queue).out.kind = "block"
            THEN soq' = soq /\ frame' = [frame EXCEPT !.pc = "blocked"]
            ELSE soq' = RotateBackBody(soq) /\ frame' = [frame EXCEPT !.iters = @ + 1]
       ELSE soq' = soq /\ frame' = [frame EXCEPT !.pc = "return"]
    /\ UNCHANGED <<target, fqs, fql, sll, trace, threads, lock>>

\* return self.input_queue.get_nowait()
S_pop_return ==
    /\ Running("pop", "return")
    /\ soq' = [soq EXCEPT !.input_queue = QueueGetNowait(soq.input_queue).rest]
    /\ trace' = Append(trace, Call("remove", None, QueueGetNowait(soq.input_queue).out))
    /\ frame' = IdleAfter(frame.iters)
    /\ UNCHANGED <<target, fqs, fql, sll, threads, lock>>

\* The heap of the linked-list container in use.
TargetNodes == IF target = "FifoQueueOfLinkedList" THEN fql.nodes ELSE sll.nodes

\* size = 0; current_node = self.head.next (queue) or self.head (stack)
S_size_begin ==
    /\ \/ CanStart("FifoQueueOfLinkedList")
       \/ CanStart("StackOfLinkedList")
    /\ frame' = [fn |-> "size", iters |-> 0, pc |-> "walk", size |-> 0,
                 current_node |-> IF target = "FifoQueueOfLinkedList"
                                  THEN fql.nodes[fql.head].next
                                  ELSE sll.head]
    /\ UNCHANGED <<target, fqs, soq, fql, sll, trace, threads, lock>>

\* while current_node.next is not None:
\*     size += 1; current_node = current_node.next
S_size_walk ==
    /\ Running("size", "walk")
    /\ IF TargetNodes[frame.current_node].next # None
       THEN frame' = [frame EXCEPT !.size = @ + 1, !.iters = @ + 1,
                                   !.current_node = TargetNodes[frame.current_node].next]
       ELSE frame' = [frame EXCEPT !.pc = "return"]
    /\ UNCHANGED <<target, fqs, soq, fql, sll, trace, threads, lock>>

\* return size
S_size_return ==
    /\ Running("size", "return")
    /\ trace' = Append(trace, Call("size", None, Return(frame.size)))
    /\ frame' = IdleAfter(frame.iters)
    /\ UNCHANGED <<target, fqs, soq, fql, sll, threads, lock>>

\* The operations without a loop run from call to return in one step.
S_straight_line ==
    /\ frame.pc = "idle"
    /\ Len(trace) < MaxStepCalls
    /\ \/ \E el \in Values : FQS_enqueue(el)
       \/ FQS_size
       \/ \E el \in Values : SOQ_push(el)
       \/ SOQ_size
       \/ \E el \in Values : FQL_enqueue(el)
       \/ FQL_dequeue
       \/ \E el \in Values : SLL_push(el)
       \/ SLL_pop

\* The steps of a call in progress.
S_in_call ==
    \/ S_dequeue_drain
    \/ S_dequeue_return
    \/ S_pop_rotate_out
    \/ S_pop_rotate_back
    \/ S_pop_return
    \/ S_size_walk
    \/ S_size_return

NextSteps ==
    \/ S_dequeue_begin
    \/ S_pop_begin
    \/ S_size_begin
    \/ S_straight_line
    \/ S_in_call

\* The interpreter goes on with the call it is in until the call ends.
SpecSteps == InitSteps /\ [][NextSteps]_vars /\ WF_vars(S_in_call)

\* Walking next from head ends: the chain holds no cycle.
ChainEnds ==
    /\ target = "FifoQueueOfLinkedList" =>
           Len(Forward(fql)) <= Cardinality(DOMAIN fql.nodes)
    /\ target = "StackOfLinkedList" =>
           Len(Walk(sll.nodes, "next", sll.head, Cardinality(DOMAIN sll.nodes) + 1))
              <= Cardinality(DOMAIN sll.nodes)

\* C11: in single-threaded use no Queue.get() of StackOfQueues.pop is ever
\* made on an empty queue, the linked-list chains never hold a cycle, and
\* every call that has begun (the drain loop of dequeue, the two rotation
\* loops of pop, the traversals of size) returns or raises.
C11_OperationsComplete ==
    /\ [](frame.pc # "blocked" /\ ChainEnds)
    /\ (frame.pc # "idle") ~> (frame.pc = "idle")

\* pop on a stack of three elements has returned after two iterations of
\* each of its loops.
C11_Witness ==
    /\ target = "StackOfQueues"
    /\ frame = IdleAfter(4)
    /\ Len(trace) = 4
    /\ LastCall.op = "remove"
    /\ LastCall.kind = "return"

----------------------------------------------------------------------------
(* Representation invariants of the containers *)

\* C19: in every state reached by calls on a FifoQueueOfStacks, output_stack
\* read top to bottom followed by input_stack read bottom to top is the
\* sequence of pending elements in enqueue order (so every element of
\* output_stack was enqueued before every element of input_stack); the top
\* of a non-empty input_stack is the most recently enqueued element and the
\* top of a non-empty output_stack is the next element to dequeue.
C19_BuffersKeepEnqueueOrder ==
    target = "FifoQueueOfStacks" =>
        LET pending == Pending(trace, FALSE)
            input == fqs.input_stack
            output == fqs.output_stack
        IN  /\ Len(output) + Len(input) = Len(pending)
            /\ \A i \in 1..Len(output) : output[Len(output) + 1 - i] = pending[i]
            /\ \A i \in 1..Len(input) : input[i] = pending[Len(output) + i]
            /\ input # <<>> =>
                   input[Len(input)] = Inserted(trace)[Len(Inserted(trace))]
            /\ output # <<>> => output[Len(output)] = Head(pending)

\* Both stacks hold elements, input_stack two different ones.
C19_Witness ==
    /\ target = "FifoQueueOfStacks"
    /\ Len(fqs.output_stack) >= 1
    /\ Len(fqs.input_stack) >= 2
    /\ fqs.input_stack[1] # fqs.input_stack[2]
    /\ Len(Removed(trace)) >= 1

\* C20: after every completed enqueue or dequeue on a FifoQueueOfLinkedList,
\* following next from the head sentinel ends at the tail sentinel, following
\* previous from the tail sentinel ends at the head sentinel, the two walks
\* visit the same nodes in opposite orders, x.next.previous is x for every
\* node x of the chain but tail, and head and tail are the sentinels the
\* constructor made, still on the heap and still without a value.
C20_ChainIsDoublyLinked ==
    target = "FifoQueueOfLinkedList" =>
        LET forward == Forward(fql)
            backward == Backward(fql)
        IN  /\ forward[1] = fql.head
            /\ forward[Len(forward)] = fql.tail
            /\ backward[1] = fql.tail
            /\ backward[Len(backward)] = fql.head
            /\ forward = Reverse(backward)
            /\ \A i \in 1..(Len(forward) - 1) :
                   fql.nodes[fql.nodes[forward[i]].next].previous = forward[i]
            /\ fql.head = FifoQueueOfLinkedListInit.head
            /\ fql.tail = FifoQueueOfLinkedListInit.tail
            /\ {fql.head, fql.tail} \subseteq DOMAIN fql.nodes
            /\ fql.nodes[fql.head].value = None
            /\ fql.nodes[fql.tail].value = None
            /\ fql.nodes[fql.head].previous = None
            /\ fql.nodes[fql.tail].next = None

\* A chain of two elements after enqueues and a dequeue.
C20_Witness ==
    /\ target = "FifoQueueOfLinkedList"
    /\ Len(Forward(fql)) = 4
    /\ Len(Removed(trace)) >= 1
    /\ LastCall.op \in {"insert", "remove"}

----------------------------------------------------------------------------
(* shuffle.py: the sorts *)

\* The containers take no part in the runs of the free functions.
NoContainers ==
    /\ target = "none"
    /\ fqs = FifoQueueOfStacksInit
    /\ soq = StackOfQueuesInit
    /\ fql = FifoQueueOfLinkedListInit
    /\ sll = StackOfLinkedListInit
    /\ trace = <<>>
    /\ threads = [t \in Threads |-> IdleThread]
    /\ lock = NoLock

\* An object of the list: `key` is what <, == and > compare, `id` is the
\* object's identity (its index in the input list).
Element(key, id) == [key |-> key, id |-> id]

Decks ==
    UNION {{[i \in 1..n |-> Element(keys[i], i)] : keys \in [1..n -> 1..NumKeys]} :
           n \in 0..MaxDeck}

\* Card.__lt__, __eq__, __le__ and __gt__ (= not __le__).
Lt(a, b) == a.key < b.key
Eq(a, b) == a.key = b.key
Le(a, b) == Eq(a, b) \/ Lt(a, b)
Gt(a, b) == ~Le(a, b)

\* Python's zero-based list[k] and the exchange of list[a] and list[b].
At(list, k) == list[k + 1]
Swap(list, a, b) ==
    [list EXCEPT ![a + 1] = list[b + 1], ![b + 1] = list[a + 1]]

\* The inner while loop of the first for loop: heap[j] moves up while its
\* parent is smaller.
RECURSIVE SiftUp(_, _)
SiftUp(heap, j) ==
    IF j > 0 /\ Lt(At(heap, (j - 1) \div 2), At(heap, j))
    THEN SiftUp(Swap(heap, j, (j - 1) \div 2), (j - 1) \div 2)
    ELSE heap

\* for i in range(len(deck)): heap.append(deck[i]); sift up
RECURSIVE BuildHeap(_, _, _)
BuildHeap(deck, heap, i) ==
    IF i < Len(deck)
    THEN BuildHeap(deck, SiftUp(Append(heap, At(deck, i)), i), i + 1)
    ELSE heap

\* SiftDown that looks at the left child only.
RECURSIVE SiftDownLeftOnly(_, _, _)
SiftDownLeftOnly(heap, j, i) ==
    LET left == ((j + 1) * 2) - 1
    IN  IF left < i /\ Gt(At(heap, left), At(heap, j))
        THEN SiftDownLeftOnly(Swap(heap, j, left), left, i)
        ELSE heap

\* The inner while loop of the second for loop: heap[j] moves down, below
\* the larger of its children, inside heap[0..i-1].
RECURSIVE SiftDown(_, _, _)
SiftDown(heap, j, i) ==
    LET left == ((j + 1) * 2) - 1
        right == (j + 1) * 2
    IN  IF left < i
        THEN IF /\ right < i
                /\ Gt(At(heap, right), At(heap, left))
                /\ Gt(At(heap, right), At(heap, j))
             THEN SiftDown(Swap(heap, j, right), right, i)
             ELSE IF Gt(At(heap, left), At(heap, j))
                  THEN SiftDown(Swap(heap, j, left), left, i)
                  ELSE heap
        ELSE heap

\* for i in range(len(heap) - 1, 0, -1): exchange heap[i] and heap[0]; sift down
RECURSIVE ExtractMax(_, _)
ExtractMax(heap, i) ==
    IF i > 0
    THEN ExtractMax(SiftDown(Swap(heap, i, 0), 0, i), i - 1)
    ELSE heap

unstable_sort(deck) == ExtractMax(BuildHeap(deck, <<>>, 0), Len(deck) - 1)

\* The while loop of stable_sort from the indices i and j on; `deck` is
\* the list being overwritten.
RECURSIVE Merge(_, _, _, _, _)
Merge(deck, first, last, i, j) ==
    IF i < Len(first) \/ j < Len(last)
    THEN IF i >= Len(first)
         THEN Merge([deck EXCEPT ![i + j + 1] = At(last, j)], first, last, i, j + 1)
         ELSE IF j >= Len(last)
              THEN Merge([deck EXCEPT ![i + j + 1] = At(first, i)], first, last, i + 1, j)
              ELSE IF Lt(At(first, i), At(last, j))
                   THEN Merge([deck EXCEPT ![i + j + 1] = At(first, i)], first, last, i + 1, j)
                   ELSE Merge([deck EXCEPT ![i + j + 1] = At(last, j)], first, last, i, j + 1)
    ELSE deck

RECURSIVE stable_sort(_)
stable_sort(deck) ==
    IF Len(deck) > 1
    THEN Merge(deck,
               stable_sort(SubSeq(deck, 1, Len(deck) \div 2)),
               stable_sort(SubSeq(deck, (Len(deck) \div 2) + 1, Len(deck))),
               0, 0)
    ELSE deck

InitSort ==
    /\ NoContainers
    /\ \E deck \in Decks :
           frame = [fn |-> "main", pc |-> "call", deck |-> deck, result |-> <<>>]

Sort_unstable ==
    /\ Running("main", "call")
    /\ frame' = [fn |-> "unstable_sort", pc |-> "done", deck |-> frame.deck,
                 result |-> unstable_sort(frame.deck)]
    /\ UNCHANGED <<target, fqs, soq, fql, sll, trace, threads, lock>>

\* stable_sort writes into the list it is given and returns it.
Sort_stable ==
    /\ Running("main", "call")
    /\ frame' = [fn |-> "stable_sort", pc |-> "done", deck |-> frame.deck,
                 result |-> stable_sort(frame.deck)]
    /\ UNCHANGED <<target, fqs, soq, fql, sll, trace, threads, lock>>

NextSort ==
    \/ Sort_unstable
    \/ Sort_stable

SpecSort == InitSort /\ [][NextSort]_vars

Returned(fn) == frame.fn = fn /\ frame.pc = "done"

\* C12: stable_sort keeps elements that compare equal in the order they
\* had in the input list.
C12_StableSortIsStable ==
    Returned("stable_sort") =>
        \A i, j \in 1..Len(frame.result) :
            (i < j /\ Eq(frame.result[i], frame.result[j])) =>
                frame.result[i].id < frame.result[j].id

IsAscending(list) ==
    \A i \in 1..(Len(list) - 1) : ~Gt(list[i], list[i + 1])

\* How many times e occurs in list.
Occurrences(list, e) == Cardinality({i \in 1..Len(list) : list[i] = e})

IsPermutation(list, of) ==
    /\ Len(list) = Len(of)
    /\ \A i \in 1..Len(of) : Occurrences(list, of[i]) = Occurrences(of, of[i])

\* C13: unstable_sort returns a permutation of its input in which no
\* element is greater than the one after it.
C13_UnstableSortSorts ==
    Returned("unstable_sort") =>
        /\ IsPermutation(frame.result, frame.deck)
        /\ IsAscending(frame.result)

\* A list of four elements with a repeated key that was not in order.
C13_Witness ==
    /\ Returned("unstable_sort")
    /\ Len(frame.deck) = 4
    /\ ~IsAscending(frame.deck)
    /\ \E i, j \in 1..4 : i # j /\ Eq(frame.deck[i], frame.deck[j])
    /\ IsAscending(frame.result)

----------------------------------------------------------------------------
(* prime_numbers.py: get_mersenne_primes *)

\* m < log2(n - 1), for an integer m and n - 1 >= 1.
BelowLog2(m, x) == 2 ^ m < x

InitPrimes ==
    /\ NoContainers
    /\ \E n \in 2..MaxN : frame = [fn |-> "main", pc |-> "call", n |-> n]

\* primes = [3] if n > 3 else []; m = 1; last_s = 4; max_m = log2(n - 1)
Primes_call ==
    /\ Running("main", "call")
    /\ frame' = [fn |-> "get_mersenne_primes", pc |-> "while", n |-> frame.n,
                 primes |-> IF frame.n > 3 THEN <<3>> ELSE <<>>,
                 m |-> 1, last_s |-> 4]
    /\ UNCHANGED <<target, fqs, soq, fql, sll, trace, threads, lock>>

\* One test of the while loop and, when it holds, one run of its body.
Primes_while ==
    /\ Running("get_mersenne_primes", "while")
    /\ IF BelowLog2(frame.m, frame.n - 1)
       THEN LET m == frame.m + 1
                candidate == (2 ^ m) - 1
            IN  frame' = [frame EXCEPT
                    !.m = m,
                    !.primes = IF frame.last_s % candidate = 0
                               THEN Append(@, candidate) ELSE @,
                    !.last_s = (frame.last_s * frame.last_s) - 2]
       ELSE frame' = [fn |-> "get_mersenne_primes", pc |-> "done", n |-> frame.n,
                      result |-> frame.primes]
    /\ UNCHANGED <<target, fqs, soq, fql, sll, trace, threads, lock>>

NextPrimes ==
    \/ Primes_call
    \/ Primes_while

SpecPrimes == InitPrimes /\ [][NextPrimes]_vars

IsPrime(k) == k >= 2 /\ \A d \in 2..(k - 1) : k % d # 0

IsMersenne(k) == \E m \in 1..k : (2 ^ m) - 1 = k

\* C14: get_mersenne_primes(n) returns, in ascending order, exactly the
\* primes of the form 2^m - 1 that are less than n.
C14_MersennePrimesBelowN ==
    Returned("get_mersenne_primes") =>
        /\ \A i \in 1..Len(frame.result) :
               /\ IsPrime(frame.result[i])
               /\ IsMersenne(frame.result[i])
               /\ frame.result[i] < frame.n
        /\ \A i \in 1..(Len(frame.result) - 1) : frame.result[i] < frame.result[i + 1]
        /\ \A k \in 2..(frame.n - 1) :
               (IsPrime(k) /\ IsMersenne(k)) =>
                   \E i \in 1..Len(frame.result) : frame.result[i] = k

----------------------------------------------------------------------------
(* object_detection.py: iou and nms *)

CocoBoundingBox(conf, x_min, y_min, width, height) ==
    [type |-> "CocoBoundingBox", conf |-> conf, x_min |-> x_min,
     y_min |-> y_min, width |-> width, height |-> height]

\* A tuple (index, item) as enumerate() yields it.
Tuple(index, item) == [type |-> "tuple", index |-> index, item |-> item]

\* The quotient num / den of two integers, den > 0.
Quotient(num, den) == [num |-> num, den |-> den]

QuotientLt(a, b) == a.num * b.den < b.num * a.den
QuotientEq(a, b) == a.num * b.den = b.num * a.den

Min(a, b) == IF a < b THEN a ELSE b
Max(a, b) == IF a > b THEN a ELSE b

\* iou(bbox1, bbox2): reading .x_min of an object that is not a bounding
\* box raises AttributeError.
iou(bbox1, bbox2) ==
    IF bbox1.type # "CocoBoundingBox" \/ bbox2.type # "CocoBoundingBox"
    THEN Raise("AttributeError")
    ELSE LET x_overlap == Min(Max(bbox1.x_min + bbox1.width - bbox2.x_min, 0),
                              Max(bbox2.x_min + bbox2.width - bbox1.x_min, 0))
             y_overlap == Min(Max(bbox1.y_min + bbox1.height - bbox2.y_min, 0),
                              Max(bbox2.y_min + bbox2.height - bbox1.y_min, 0))
             union == x_overlap * y_overlap
             intersect == (bbox1.width * bbox1.height)
                              + (bbox2.width * bbox2.height) - union
         IN  IF union = 0 THEN Return(Quotient(0, 1))
             ELSE Return(Quotient(intersect, union))

\* bboxes.sort(key=lambda x: x.conf): ascending, equal keys keep their order.
RECURSIVE SortByConf(_)
SortByConf(bboxes) ==
    IF bboxes = <<>> THEN <<>>
    ELSE LET sorted == SortByConf(Front(bboxes))
             bbox == bboxes[Len(bboxes)]
             before == {i \in 1..Len(sorted) : sorted[i].conf <= bbox.conf}
             k == Cardinality(before)
         IN  SubSeq(sorted, 1, k) \o <<bbox>> \o SubSeq(sorted, k + 1, Len(sorted))

Enumerate(list) == [i \in 1..Len(list) |-> Tuple(i - 1, list[i])]

\* for bbox in enumerate(bboxes): if iou(bbox, filtered[-1]) < thresh:
\*     remaining.append(bbox)
RECURSIVE ForEachRemaining(_, _, _, _)
ForEachRemaining(items, last, thresh, remaining) ==
    IF items = <<>> THEN Return(remaining)
    ELSE LET value == iou(Head(items), last)
         IN  IF value.kind = "raise" THEN value
             ELSE ForEachRemaining(Tail(items), last, thresh,
                      IF QuotientLt(value.val, thresh)
                      THEN Append(remaining, Head(items)) ELSE remaining)

\* while len(bboxes) > 0: filtered.append(bboxes.pop()); ...; bboxes = remaining
RECURSIVE WhileBoxes(_, _, _)
WhileBoxes(bboxes, filtered, thresh) ==
    IF Len(bboxes) > 0
    THEN LET kept == Append(filtered, ListPop(bboxes).out.val)
             loop == ForEachRemaining(Enumerate(ListPop(bboxes).rest),
                                      kept[Len(kept)], thresh, <<>>)
         IN  IF loop.kind = "raise" THEN loop
             ELSE WhileBoxes(loop.val, kept, thresh)
    ELSE Return(filtered)

nms(bboxes, thresh) == WhileBoxes(SortByConf(bboxes), <<>>, thresh)

Boxes ==
    {CocoBoundingBox(1, x, y, w, h) :
        x \in 0..MaxCoord, y \in 0..MaxCoord, w \in 1..MaxSide, h \in 1..MaxSide}

Thresholds == {Quotient(1, 2), Quotient(1, 1)}

InitBoxes ==
    /\ NoContainers
    /\ \E bbox1, bbox2 \in Boxes :
           frame = [fn |-> "main", pc |-> "call", bbox1 |-> bbox1, bbox2 |-> bbox2]

Boxes_iou ==
    /\ Running("main", "call")
    /\ frame' = [fn |-> "iou", pc |-> "done", bbox1 |-> frame.bbox1,
                 bbox2 |-> frame.bbox2, out |-> iou(frame.bbox1, frame.bbox2)]
    /\ UNCHANGED <<target, fqs, soq, fql, sll, trace, threads, lock>>

\* nms on a list of none, one or both of the boxes, each with a confidence.
Boxes_nms ==
    /\ Running("main", "call")
    /\ \E n \in 0..2, conf1, conf2 \in 1..NumConf, thresh \in Thresholds :
           LET both == <<[frame.bbox1 EXCEPT !.conf = conf1],
                         [frame.bbox2 EXCEPT !.conf = conf2]>>
               bboxes == SubSeq(both, 1, n)
           IN  frame' = [fn |-> "nms", pc |-> "done", bboxes |-> bboxes,
                         thresh |-> thresh, out |-> nms(bboxes, thresh)]
    /\ UNCHANGED <<target, fqs, soq, fql, sll, trace, threads, lock>>

NextBoxes ==
    \/ Boxes_iou
    \/ Boxes_nms

SpecBoxes == InitBoxes /\ [][NextBoxes]_vars

\* Width of the interval two intervals [min, min + length) have in common.
Overlap(min1, len1, min2, len2) ==
    Max(Min(min1 + len1, min2 + len2) - Max(min1, min2), 0)

IntersectionArea(a, b) ==
    Overlap(a.x_min, a.width, b.x_min, b.width)
        * Overlap(a.y_min, a.height, b.y_min, b.height)

UnionArea(a, b) ==
    (a.width * a.height) + (b.width * b.height) - IntersectionArea(a, b)

IntersectionOverUnion(a, b) == Quotient(IntersectionArea(a, b), UnionArea(a, b))

\* C15: for two boxes of positive width and height iou returns the area of
\* the intersection divided by the area of the union, a number from 0 to 1.
C15_IouIsIntersectionOverUnion ==
    Returned("iou") =>
        /\ frame.out.kind = "return"
        /\ QuotientEq(frame.out.val, IntersectionOverUnion(frame.bbox1, frame.bbox2))
        /\ ~QuotientLt(frame.out.val, Quotient(0, 1))
        /\ ~QuotientLt(Quotient(1, 1), frame.out.val)

\* The highest confidence of a non-empty list of boxes.
MaxConf(bboxes) ==
    CHOOSE c \in {bboxes[i].conf : i \in 1..Len(bboxes)} :
        \A i \in 1..Len(bboxes) : bboxes[i].conf <= c

\* C16: nms returns boxes of the input in descending order of confidence,
\* the highest-confidence box among them, every later box with an IoU below
\* thresh with every box kept before it, and every box left out with an IoU
\* of at least thresh with a kept box of higher or equal confidence.
C16_NmsKeepsNonOverlappingMaxima ==
    Returned("nms") =>
        /\ frame.out.kind = "return"
        /\ LET kept == frame.out.val
               bboxes == frame.bboxes
               thresh == frame.thresh
           IN  /\ \A i \in 1..Len(kept) :
                      /\ Occurrences(bboxes, kept[i]) >= 1
                      /\ Occurrences(kept, kept[i]) <= Occurrences(bboxes, kept[i])
               /\ \A i, j \in 1..Len(kept) : i < j => kept[i].conf >= kept[j].conf
               /\ bboxes # <<>> => (kept # <<>> /\ kept[1].conf = MaxConf(bboxes))
               /\ \A i, j \in 1..Len(kept) :
                      i < j => QuotientLt(IntersectionOverUnion(kept[j], kept[i]), thresh)
               /\ \A i \in 1..Len(bboxes) :
                      Occurrences(kept, bboxes[i]) = 0 =>
                          \E k \in 1..Len(kept) :
                              /\ kept[k].conf >= bboxes[i].conf
                              /\ ~QuotientLt(IntersectionOverUnion(bboxes[i], kept[k]),
                                             thresh)

----------------------------------------------------------------------------
(* string_reversal.py: paragraph_reversal *)

\* A string is the sequence of its characters: "A" is an upper-case letter,
\* "b" a lower-case letter, " " a whitespace character.
sentence_breaks == {".", "?", "!"}

\* c.strip() == ''
StripsToEmpty(c) == c = " "

\* c.upper()
Upper(c) == IF c = "b" THEN "B" ELSE c

\* ''.join(strings)
RECURSIVE Join(_)
Join(strings) ==
    IF strings = <<>> THEN <<>> ELSE Head(strings) \o Join(Tail(strings))

\* for i in range(int(len(sentences)/2)): exchange sentences[i] and
\* sentences[len(sentences) - 1 - i]
RECURSIVE ExchangeEnds(_, _)
ExchangeEnds(sentences, i) ==
    IF i < Len(sentences) \div 2
    THEN ExchangeEnds(Swap(sentences, i, Len(sentences) - 1 - i), i + 1)
    ELSE sentences

\* The sentences a paragraph is written from: an upper-case letter, words,
\* and the closing punctuation.
Words == {<<>>, <<"b">>, <<"b", " ", "b">>}
Closings == {<<".">>, <<"?">>, <<"!">>, <<"?", "!">>}
Sentences == {<<"A">> \o words \o closing : words \in Words, closing \in Closings}
Separators == {<<" ">>, <<" ", " ">>}

\* The sentences written one after the other, separators[i] after the i-th.
RECURSIVE Paragraph(_, _)
Paragraph(sentences, separators) ==
    IF Len(sentences) = 1 THEN Head(sentences)
    ELSE Head(sentences) \o Head(separators)
             \o Paragraph(Tail(sentences), Tail(separators))

InitParagraph ==
    /\ NoContainers
    /\ \E k \in 1..MaxSentences :
       \E written \in [1..k -> Sentences], separators \in [1..(k - 1) -> Separators] :
           frame = [fn |-> "main", pc |-> "call", written |-> written,
                    p |-> Paragraph(written, separators)]

\* sentences = []; sentence = []; state = 'normal_text'
Paragraph_call ==
    /\ Running("main", "call")
    /\ frame' = [fn |-> "paragraph_reversal", pc |-> "for", written |-> frame.written,
                 p |-> frame.p, i |-> 0, sentences |-> <<>>, sentence |-> <<>>,
                 state |-> "normal_text"]
    /\ UNCHANGED <<target, fqs, soq, fql, sll, trace, threads, lock>>

\* One iteration of  for i in range(len(p)).
Paragraph_for ==
    /\ Running("paragraph_reversal", "for")
    /\ frame.i < Len(frame.p)
    /\ LET c == At(frame.p, frame.i)
           next == [frame EXCEPT !.i = @ + 1]
       IN  frame' =
               IF frame.state = "normal_text"
               THEN [next EXCEPT !.sentence = Append(@, c),
                                 !.state = IF c \in sentence_breaks
                                           THEN "punctuation" ELSE @]
               ELSE IF frame.state = "punctuation"
               THEN [next EXCEPT !.sentence = Append(@, c),
                                 !.state = IF ~StripsToEmpty(c)
                                           THEN "normal_text" ELSE "white_space"]
               ELSE IF StripsToEmpty(c)
               THEN next
               ELSE IF Upper(c) = c
               THEN [next EXCEPT !.sentences = Append(@, frame.sentence),
                                 !.sentence = <<c>>,
                                 !.state = "normal_text"]
               ELSE [next EXCEPT !.state = "normal_text"]
    /\ UNCHANGED <<target, fqs, soq, fql, sll, trace, threads, lock>>

\* After the loop.  `sentence[-1].strip != ''` compares a bound method with
\* a string and is always true, so ' ' is always appended.
Paragraph_return ==
    /\ Running("paragraph_reversal", "for")
    /\ frame.i = Len(frame.p)
    /\ LET sentences == Append(Append(frame.sentences, <<" ">>), frame.sentence)
       IN  frame' = [fn |-> "paragraph_reversal", pc |-> "done",
                     written |-> frame.written, p |-> frame.p,
                     result |-> Join(ExchangeEnds(sentences, 0))]
    /\ UNCHANGED <<target, fqs, soq, fql, sll, trace, threads, lock>>

NextParagraph ==
    \/ Paragraph_call
    \/ Paragraph_for
    \/ Paragraph_return

SpecParagraph == InitParagraph /\ [][NextParagraph]_vars

\* A string with every run of whitespace made one space and the whitespace
\* at its end removed.
RECURSIVE SingleSpaced(_)
SingleSpaced(str) ==
    IF str = <<>> THEN <<>>
    ELSE IF Head(str) = " " /\ (Len(str) = 1 \/ str[2] = " ")
         THEN SingleSpaced(Tail(str))
         ELSE <<Head(str)>> \o SingleSpaced(Tail(str))

\* The strings joined with one space between them.
RECURSIVE Spaced(_)
Spaced(strings) ==
    IF Len(strings) = 1 THEN Head(strings)
    ELSE Head(strings) \o <<" ">> \o Spaced(Tail(strings))

\* C17: for a paragraph of k >= 1 sentences separated by whitespace,
\* paragraph_reversal returns the same sentences, last one first, each with
\* its own words and closing punctuation (whitespace between them aside).
C17_SentencesReversed ==
    Returned("paragraph_reversal") =>
        SingleSpaced(frame.result) = Spaced(Reverse(frame.written))

----------------------------------------------------------------------------
(* shuffle.py: shuffle *)

\* randintFromZero draws from the whole list whatever a is.
randintFromZero(a, b) == 0..b

\* random.randint(a, b): the integers a draw can give, a <= N <= b.
randint(a, b) == a..b

\* The lists of distinct cards.
DistinctDecks ==
    UNION {{deck \in [1..n -> 1..NumCards] :
               \A i, j \in 1..n : i # j => deck[i] # deck[j]} : n \in 0..NumCards}

InitShuffle ==
    /\ NoContainers
    /\ \E deck \in DistinctDecks :
           frame = [fn |-> "main", pc |-> "call", given |-> deck]

Shuffle_call ==
    /\ Running("main", "call")
    /\ frame' = [fn |-> "shuffle", pc |-> "for", given |-> frame.given,
                 deck |-> frame.given, i |-> 0, draws |-> <<>>]
    /\ UNCHANGED <<target, fqs, soq, fql, sll, trace, threads, lock>>

\* One iteration of  for i in range(len(deck) - 1), for each j the draw can give.
Shuffle_for ==
    /\ Running("shuffle", "for")
    /\ frame.i < Len(frame.deck) - 1
    /\ \E j \in randint(frame.i, Len(frame.deck) - 1) :
           frame' = [frame EXCEPT !.deck = Swap(frame.deck, frame.i, j),
                                  !.i = @ + 1,
                                  !.draws = Append(@, j)]
    /\ UNCHANGED <<target, fqs, soq, fql, sll, trace, threads, lock>>

\* return deck: the list that was given, as the loop left it.
Shuffle_return ==
    /\ Running("shuffle", "for")
    /\ frame.i >= Len(frame.deck) - 1
    /\ frame' = [fn |-> "shuffle", pc |-> "done", given |-> frame.given,
                 deck |-> frame.deck, draws |-> frame.draws, result |-> frame.deck]
    /\ UNCHANGED <<target, fqs, soq, fql, sll, trace, threads, lock>>

NextShuffle ==
    \/ Shuffle_call
    \/ Shuffle_for
    \/ Shuffle_return

SpecShuffle == InitShuffle /\ [][NextShuffle]_vars

\* The sequences of draws (j_0, ..., j_{n-2}) with i <= j_i <= n - 1.
DrawSequences(n) ==
    {draws \in [1..(n - 1) -> 0..(n - 1)] : \A k \in 1..(n - 1) : draws[k] >= k - 1}

\* The loop of shuffle from index i on when the draws are the given ones.
RECURSIVE ShuffleWith(_, _, _)
ShuffleWith(deck, draws, i) ==
    IF i < Len(deck) - 1
    THEN ShuffleWith(Swap(deck, i, draws[i + 1]), draws, i + 1)
    ELSE deck

RECURSIVE Factorial(_)
Factorial(n) == IF n <= 1 THEN 1 ELSE n * Factorial(n - 1)

\* C18: whatever the draws, shuffle returns the list it was given holding a
\* permutation of the original elements; the draws are a sequence j_i with
\* i <= j_i <= n - 1, there are n! such sequences and they lead to n!
\* different orderings (a bijection onto the permutations), and each element
\* ends in each position under the same number, (n - 1)!, of them.
C18_ShuffleIsUniform ==
    Returned("shuffle") =>
        LET n == Len(frame.given)
            orderings == {ShuffleWith(frame.given, draws, 0) : draws \in DrawSequences(n)}
        IN  /\ frame.result = frame.deck
            /\ IsPermutation(frame.result, frame.given)
            /\ frame.draws \in DrawSequences(n)
            /\ frame.result = ShuffleWith(frame.given, frame.draws, 0)
            /\ Cardinality(DrawSequences(n)) = Factorial(n)
            /\ Cardinality(orderings) = Factorial(n)
            /\ \A ordering \in orderings : IsPermutation(ordering, frame.given)
            /\ \A k \in 1..n : \A e \in 1..n :
                   Cardinality({ordering \in orderings : ordering[k] = frame.given[e]})
                       = Factorial(n - 1)

\* A deck of four cards came back in another order after three draws.
C18_Witness ==
    /\ Returned("shuffle")
    /\ Len(frame.given) = 4
    /\ Len(frame.draws) = 3
    /\ frame.result # frame.given
    /\ frame.draws[3] = 3

----------------------------------------------------------------------------
(* The steps of StackOfQueues.pop and the effects of the FifoQueueOfStacks calls *)

\* C21: whenever no StackOfQueues operation is in progress, output_queue is
\* empty and input_queue holds every element of the stack in push order,
\* oldest at the front; so when pop has returned on a stack of n >= 1
\* elements, input_queue holds the other n - 1 in their push order.
C21_IdleStackRestsInInputQueue ==
    (target = "StackOfQueues" /\ frame.pc = "idle") =>
        /\ soq.output_queue = <<>>
        /\ soq.input_queue = Pending(trace, TRUE)
        /\ (trace # <<>> /\ LastCall.op = "remove" /\ LastCall.kind = "return") =>
               soq.input_queue = Front(Pending(Front(trace), TRUE))

\* pop has returned on a stack of three elements and left the two older,
\* different ones.
C21_Witness ==
    /\ target = "StackOfQueues"
    /\ frame.pc = "idle"
    /\ trace # <<>>
    /\ LastCall.op = "remove"
    /\ LastCall.kind = "return"
    /\ Len(soq.input_queue) = 2
    /\ soq.input_queue[1] # soq.input_queue[2]

\* The elements the stack held when the pop in progress was called, in push
\* order: the call is recorded in the history only when it ends.
HeldAtCall == Pending(trace, TRUE)

PopOnNonEmpty ==
    target = "StackOfQueues" /\ frame.fn = "pop" /\ HeldAtCall # <<>>

\* C22 as stated: pop rotates all but the last-pushed element into
\* output_queue, takes its result out of input_queue when that element is
\* the only one there, and rotates output_queue back only afterwards; for
\* n = 1 nothing is rotated.
C22_TakenWhenAlone ==
    PopOnNonEmpty =>
        /\ frame.pc = "rotate_out" =>
               /\ soq.output_queue \o soq.input_queue = HeldAtCall
               /\ frame.iters = Len(soq.output_queue)
        /\ frame.pc = "return" =>
               /\ soq.input_queue = <<HeldAtCall[Len(HeldAtCall)]>>
               /\ soq.output_queue = Front(HeldAtCall)
        /\ Len(HeldAtCall) = 1 => frame.iters = 0

\* C22 amended: pop rotates all but the last-pushed element into
\* output_queue in push order, then rotates output_queue back into
\* input_queue behind that element, and only then takes its result from the
\* front of input_queue, which at that moment holds all n elements with the
\* last-pushed one first and output_queue empty; for n = 1 nothing is rotated.
C22_TakenAfterRotatingBack ==
    PopOnNonEmpty =>
        LET n == Len(HeldAtCall)
            last == HeldAtCall[n]
        IN  /\ frame.pc = "rotate_out" =>
                   /\ soq.output_queue \o soq.input_queue = HeldAtCall
                   /\ frame.iters = Len(soq.output_queue)
                   /\ frame.iters <= n - 1
            /\ frame.pc = "rotate_back" =>
                   /\ Head(soq.input_queue) = last
                   /\ Tail(soq.input_queue) \o soq.output_queue = Front(HeldAtCall)
                   /\ frame.iters = (n - 1) + Len(Tail(soq.input_queue))
            /\ frame.pc = "return" =>
                   /\ soq.output_queue = <<>>
                   /\ soq.input_queue = <<last>> \o Front(HeldAtCall)
                   /\ frame.iters = 2 * (n - 1)
            /\ frame.pc \in {"rotate_out", "rotate_back", "return"}
            /\ n = 1 => frame.iters = 0

\* pop on a stack of three elements is about to take its result: both
\* rotations are done and input_queue holds all three.
C22_Witness ==
    /\ PopOnNonEmpty
    /\ frame.pc = "return"
    /\ frame.iters = 4
    /\ Len(soq.input_queue) = 3
    /\ soq.input_queue[1] # soq.input_queue[2]

\* C23: on a FifoQueueOfStacks, enqueue appends exactly its argument to
\* input_stack and leaves output_stack as it is; a dequeue made while
\* output_stack is non-empty removes only the top of output_stack, returns
\* it and leaves input_stack as it is; input_stack loses elements only in a
\* dequeue that finds output_stack empty, and is empty after such a dequeue.
C23_CallsTouchOneStack ==
    [][(target = "FifoQueueOfStacks" /\ trace' # trace) =>
          LET call == trace'[Len(trace')]
          IN  /\ call.op = "insert" =>
                     /\ fqs'.input_stack = Append(fqs.input_stack, call.arg)
                     /\ fqs'.output_stack = fqs.output_stack
              /\ (call.op = "remove" /\ fqs.output_stack # <<>>) =>
                     /\ fqs'.output_stack = Front(fqs.output_stack)
                     /\ fqs'.input_stack = fqs.input_stack
                     /\ call.kind = "return"
                     /\ call.val = fqs.output_stack[Len(fqs.output_stack)]
              /\ Len(fqs'.input_stack) < Len(fqs.input_stack) =>
                     /\ call.op = "remove"
                     /\ fqs.output_stack = <<>>
              /\ (call.op = "remove" /\ fqs.output_stack = <<>>) =>
                     fqs'.input_stack = <<>>]_vars

\* A dequeue found output_stack non-empty after an earlier dequeue had
\* drained input_stack, and left the element enqueued in between alone.
C23_Witness ==
    /\ target = "FifoQueueOfStacks"
    /\ trace # <<>>
    /\ LastCall.op = "remove"
    /\ LastCall.kind = "return"
    /\ Len(Removed(trace)) >= 2
    /\ Len(fqs.input_stack) >= 1
    /\ Len(fqs.output_stack) >= 1

====
